---- MODULE Spec2Model ----
(***************************************************************************)
(* Model of VespaCloudwatchEmitter (cloudwatch/vespa_cloudwatch_emitter.py) *)
(*                                                                         *)
(* JSON objects (Python dicts) are functions from key strings to values,   *)
(* so that  'k' in d  is  "k" \in DOMAIN d  and  d['k']  is  d.k  (TLC      *)
(* stops with an error on d.k when the key is missing, as Python raises    *)
(* KeyError).  An insertion-ordered mapping that the code walks with       *)
(* .items() ('values', 'dimensions') is the sequence of its <<key, value>> *)
(* pairs.  JSON lists are sequences.  Metric values are opaque tokens.     *)
(***************************************************************************)
EXTENDS Integers, Sequences, FiniteSets, TLC

VARIABLES
    response_json,      \* argument of all_metric_data_for_response (SpecFlatten)
    flat,               \* its return value
    flat_outcome,       \* "pending", then "returned" or "raised"
    lst,                \* argument of split_list (SpecChunk)
    chunk_size,         \* argument of split_list (SpecChunk)
    list_of_chunks,     \* its return value
    split_outcome,      \* "pending", then "returned" or "raised"
    threads,            \* TRUE when the callers of run() are threads that may overlap
    CHUNK_SIZE,         \* self.CHUNK_SIZE, the same for every emitter object
    emitter_of,         \* emitter_of[i]: the object (self) invocation i of run() is called on
    chunks_sent,        \* chunks_sent[e]: the attribute self.chunks_sent of emitter object e
    pc,                 \* pc[i]: where invocation i of run() stands
    metrics_json,       \* local of run()
    metric_data,        \* local of run(), argument of _emit_metric_data
    metric_data_chunks, \* local of _emit_metric_data
    idx,                \* position of the for loop of _emit_metric_data (1-based)
    tmp,                \* the value self.chunks_sent += 1 has loaded and not yet stored
    exc,                \* the exception raised inside the try block, "none" if none
    fetches,            \* history: number of calls of _get_metrics_json by invocation i
    puts,               \* history: the calls of put_metric_data by invocation i, in order
    log                 \* history: WARNING lines and the summary line written by invocation i

pureVars == <<response_json, flat, flat_outcome, lst, chunk_size, list_of_chunks,
             split_outcome>>

runVars == <<threads, CHUNK_SIZE, emitter_of, chunks_sent, pc, metrics_json, metric_data,
             metric_data_chunks, idx, tmp, exc, fetches, puts, log>>

vars == <<pureVars, runVars>>

-----------------------------------------------------------------------------
(* Bounds of the model *)

MaxNodes == 2
MaxHolders == 3
MaxLen == 4
MaxChunkSize == 3
MaxInvocations == 2

(* Program constants *)

DEFAULT_CHUNK_SIZE == 20
TEST_CHUNK_SIZE == 3

-----------------------------------------------------------------------------
(* Helpers for Python list operations *)

EmptyObj == [k \in {} |-> 0]

Min(a, b) == IF a < b THEN a ELSE b

\* list.extend applied in a loop: the concatenation of the lists, in order
RECURSIVE extend_all(_)
extend_all(lists) ==
    IF Len(lists) = 0 THEN <<>>
    ELSE Head(lists) \o extend_all(Tail(lists))

\* lst[lo:hi] for 0 <= lo, 0 <= hi: the slice is clamped to the list
slice(l, lo, hi) == SubSeq(l, lo + 1, Min(hi, Len(l)))

\* list(range(0, stop, step)) for step # 0; a negative step from 0 up to
\* stop >= 0 is the empty range
RECURSIVE range_from(_, _, _)
range_from(start, stop, step) ==
    IF step > 0
    THEN IF start < stop THEN <<start>> \o range_from(start + step, stop, step) ELSE <<>>
    ELSE IF start > stop THEN <<start>> \o range_from(start + step, stop, step) ELSE <<>>

-----------------------------------------------------------------------------
(* The flattener: all_metric_data_for_response and its helpers *)

_get_dimensions(metrics) ==
    IF "dimensions" \in DOMAIN metrics
    THEN LET dimensions_json == metrics.dimensions
         IN  [j \in 1..Len(dimensions_json) |->
                 [Name |-> dimensions_json[j][1], Value |-> dimensions_json[j][2]]]
    ELSE <<>>

_get_metrics_with_dimensions(metrics_elem) ==
    IF "values" \notin DOMAIN metrics_elem THEN <<>>
    ELSE LET dimensions == _get_dimensions(metrics_elem)
             items == metrics_elem.values
         IN  [j \in 1..Len(items) |->
                 [MetricName |-> items[j][1],
                  Value      |-> items[j][2],
                  Unit       |-> "None",
                  Dimensions |-> dimensions]]

\* as _metric_data_for_service_or_node, but an entry without 'values' ends the loop
_metric_data_for_service_or_node_break(service_or_node) ==
    IF "metrics" \notin DOMAIN service_or_node THEN <<>>
    ELSE LET metrics == service_or_node.metrics
             gaps == {j \in 1..Len(metrics) : "values" \notin DOMAIN metrics[j]}
             n == IF gaps = {} THEN Len(metrics)
                  ELSE (CHOOSE j \in gaps : \A g \in gaps : j <= g) - 1
         IN  extend_all([j \in 1..n |-> _get_metrics_with_dimensions(metrics[j])])

_metric_data_for_service_or_node(service_or_node) ==
    IF "metrics" \notin DOMAIN service_or_node THEN <<>>
    ELSE extend_all([j \in 1..Len(service_or_node.metrics) |->
                        _get_metrics_with_dimensions(service_or_node.metrics[j])])

_metric_data_for_node_node(nodes_elem) ==
    IF "node" \notin DOMAIN nodes_elem THEN <<>>
    ELSE _metric_data_for_service_or_node(nodes_elem.node)

_metric_data_for_node_services(nodes_elem) ==
    IF "services" \notin DOMAIN nodes_elem THEN <<>>
    ELSE extend_all([j \in 1..Len(nodes_elem.services) |->
                        _metric_data_for_service_or_node(nodes_elem.services[j])])

\* a JSON value that is no object (a number, a string, null)
JsonScalar == [json_scalar |-> TRUE]

is_dict(x) == "json_scalar" \notin DOMAIN x

\* response_json['nodes'] raises KeyError without 'nodes'; nodes_elem.get raises
\* AttributeError on an element that is no object
all_metric_data_for_response_raises(json) ==
    \/ "nodes" \notin DOMAIN json
    \/ \E i \in 1..Len(json.nodes) : ~is_dict(json.nodes[i])

\* the WARNING lines of _metric_data_for_node_services, in order
flatten_warnings(json) ==
    extend_all([i \in 1..Len(json.nodes) |->
                   IF "services" \notin DOMAIN json.nodes[i]
                   THEN << <<"WARNING", "No services for node {}">> >>
                   ELSE <<>>])

\* as all_metric_data_for_response, but the services are taken before the node
all_metric_data_for_response_services_first(json) ==
    extend_all([i \in 1..Len(json.nodes) |->
                   _metric_data_for_node_services(json.nodes[i])
                   \o _metric_data_for_node_node(json.nodes[i])])

all_metric_data_for_response(json) ==
    extend_all([i \in 1..Len(json.nodes) |->
                   _metric_data_for_node_node(json.nodes[i])
                   \o _metric_data_for_node_services(json.nodes[i])])

-----------------------------------------------------------------------------
(* The batcher: split_list *)

\* range(0, len(lst), 0) raises ValueError
split_list_raises(l, size) == size = 0

\* as split_list, but only the full chunks are returned
split_list_full_chunks_only(l, size) ==
    LET starts == range_from(0, Len(l) - size + 1, size)
    IN  [j \in 1..Len(starts) |-> slice(l, starts[j], starts[j] + size)]

split_list(l, size) ==
    LET starts == range_from(0, Len(l), size)
    IN  [j \in 1..Len(starts) |-> slice(l, starts[j], starts[j] + size)]

-----------------------------------------------------------------------------
(* Input documents *)

EntryCpu ==
    [values     |-> << <<"cpu.util", "11.1">>, <<"cpu.idle", "80">> >>,
     dimensions |-> << <<"host", "host1">>, <<"applicationId", "my-app">> >>]
EntryMem == [values |-> << <<"mem.util", "62">> >>]
EntryNoValues == [dimensions |-> << <<"host", "host2">> >>]
EntryEmptyValues == [values |-> <<>>, dimensions |-> << <<"host", "host2">> >>]
EntryNet ==
    [values     |-> << <<"net.in.bytes", "12345">> >>,
     dimensions |-> << <<"host", "host2">> >>]

HolderNoMetrics == EmptyObj
HolderEmptyMetrics == [metrics |-> <<>>]
HolderA == [metrics |-> <<EntryCpu, EntryNoValues, EntryMem>>]
HolderB == [metrics |-> <<EntryEmptyValues, EntryNet>>]

Holders == {HolderNoMetrics, HolderA, HolderB}

\* lists of exactly n holders
HolderLists(n) == [1..n -> Holders]

\* the 'nodes' elements that hold exactly j holders ('node' and 'services' together)
NodesElems(j) ==
    {[services |-> s] : s \in HolderLists(j)}
    \cup (IF j = 0 THEN {EmptyObj} ELSE {})
    \cup (IF j = 1 THEN {[node |-> h] : h \in Holders} ELSE {})
    \cup (IF j >= 1
          THEN {[node |-> h, services |-> s] : h \in Holders, s \in HolderLists(j - 1)}
          ELSE {})

\* lists of exactly n 'nodes' elements holding at most b holders in all
RECURSIVE NodesLists(_, _)
NodesLists(n, b) ==
    IF n = 0 THEN {<<>>}
    ELSE UNION {{<<e>> \o rest : e \in NodesElems(j), rest \in NodesLists(n - 1, b - j)}
                : j \in 0..b}

\* the documents with a 'nodes' list of at most n elements and b holders
Docs(n, b) == {[nodes |-> l] : l \in UNION {NodesLists(m, b) : m \in 0..n}}

-----------------------------------------------------------------------------
(* The documents _get_metrics_json returns in the runs *)

DocNoNodes == EmptyObj
DocEmptyNodes == [nodes |-> <<>>]
DocZeroPoints == [nodes |-> << [node |-> HolderNoMetrics, services |-> <<HolderEmptyMetrics>>] >>]
DocSmall == [nodes |-> << [node |-> HolderA], [services |-> <<HolderB>>] >>]
DocBadNode == [nodes |-> << [node |-> HolderA], JsonScalar >>]

\* metrics.json of the tests, rebuilt from what test_generated_metric_data asserts:
\* 8 points, cpu.util first, net.in.bytes third, http.status.2xx.rate fifth and
\* mem.util last; the points and dimensions the test does not name are placeholders
Fixture ==
    [nodes |-> <<
        [node |-> [metrics |-> <<
            [values     |-> << <<"cpu.util", "11.1">>, <<"disk.util", "p1">> >>,
             dimensions |-> << <<"d1", "v1">>, <<"d2", "v2">>, <<"host", "host1">>,
                               <<"d4", "v4">> >>] >>],
         services |-> <<
            [metrics |-> <<
                [values     |-> << <<"net.in.bytes", "12345">>, <<"net.out.bytes", "p3">> >>,
                 dimensions |-> << <<"host", "host1">> >>] >>] >>],
        [services |-> <<
            [metrics |-> <<
                [values     |-> << <<"http.status.2xx.rate", "4.95">> >>,
                 dimensions |-> << <<"d1", "v1">>, <<"d2", "v2">>, <<"host", "host2">>,
                                   <<"d4", "v4">>, <<"d5", "v5">>, <<"httpMethod", "GET">> >>],
                [values     |-> << <<"p5", "p5">>, <<"p6", "p6">> >>] >>],
            [metrics |-> <<
                [values     |-> << <<"mem.util", "62">> >>,
                 dimensions |-> << <<"d1", "v1">>, <<"d2", "v2">>, <<"host", "host2">>,
                                   <<"d4", "v4">> >>] >>] >>]
    >>]

RunDocs == {DocNoNodes, DocEmptyNodes, DocZeroPoints, DocSmall, DocBadNode, JsonScalar, Fixture}

-----------------------------------------------------------------------------
(* run() and _emit_metric_data, one invocation i at a time *)

\* the local metrics_json before its assignment and after run() has returned
Unset == [unset |-> TRUE]

Invocations == 1..MaxInvocations

Emitters == {"emitter1", "emitter2"}

self(i) == emitter_of[i]

\* the classes an exception is an instance of (urllib3's TimeoutError is an HTTPError)
Bases(k) ==
    CASE k = "TimeoutError" -> {"TimeoutError", "HTTPError", "Exception"}
      [] k = "HTTPError"    -> {"HTTPError", "Exception"}
      [] OTHER              -> {k, "Exception"}

\* the except clauses of run(), in order: <<class, warning>>
\* (first as they would be without the last clause)
except_clauses_without_catch_all ==
    << <<"TimeoutError", "Timed out connecting to Vespa's metrics api: {}">>,
       <<"HTTPError", "Could not connect to Vespa's metrics api: {}">> >>

except_clauses ==
    << <<"TimeoutError", "Timed out connecting to Vespa's metrics api: {}">>,
       <<"HTTPError", "Could not connect to Vespa's metrics api: {}">>,
       <<"Exception", "Unexpected error: {}">> >>

\* the index of the first clause that catches k, 0 if none does
catching_clause(k) ==
    LET caught == {c \in 1..Len(except_clauses) : except_clauses[c][1] \in Bases(k)}
    IN  IF caught = {} THEN 0 ELSE CHOOSE c \in caught : \A d \in caught : c <= d

\* what _get_metrics_json raises: a timeout, a connection or HTTP error, or
\* anything else (SSM retrieval, the file write, json.loads)
FetchErrors == {"TimeoutError", "HTTPError", "JSONDecodeError"}

\* lambda_handler and __main__ call run() and wait for it: invocation i runs
\* when the ones before it have returned; threads run whenever they are scheduled
Scheduled(i) == threads \/ \A j \in Invocations : j < i => pc[j] = "returned"

raise(i, k) ==
    /\ exc' = [exc EXCEPT ![i] = k]
    /\ pc' = [pc EXCEPT ![i] = "except"]

\* as Start, but the counter is left as the run before left it
Start_without_reset(i) ==
    /\ Scheduled(i)
    /\ pc[i] = "idle"
    /\ pc' = [pc EXCEPT ![i] = "fetching"]
    /\ UNCHANGED <<pureVars, threads, CHUNK_SIZE, emitter_of, chunks_sent, metrics_json, metric_data,
                   metric_data_chunks, idx, tmp, exc, fetches, puts, log>>

\* run(), lines 31-33
Start(i) ==
    /\ Scheduled(i)
    /\ pc[i] = "idle"
    /\ chunks_sent' = [chunks_sent EXCEPT ![self(i)] = 0]
    /\ pc' = [pc EXCEPT ![i] = "fetching"]
    /\ UNCHANGED <<pureVars, threads, CHUNK_SIZE, emitter_of, metrics_json, metric_data,
                   metric_data_chunks, idx, tmp, exc, fetches, puts, log>>

\* run(), line 35: the one call of _get_metrics_json
Fetch(i) ==
    /\ Scheduled(i)
    /\ pc[i] = "fetching"
    /\ fetches' = [fetches EXCEPT ![i] = @ + 1]
    /\ \/ \E d \in RunDocs :
            /\ metrics_json' = [metrics_json EXCEPT ![i] = d]
            /\ pc' = [pc EXCEPT ![i] = "validating"]
            /\ UNCHANGED exc
       \/ \E k \in FetchErrors :
            /\ raise(i, k)
            /\ UNCHANGED metrics_json
    /\ UNCHANGED <<pureVars, threads, CHUNK_SIZE, emitter_of, chunks_sent, metric_data,
                   metric_data_chunks, idx, tmp, puts, log>>

\* as Validate, without the test for 'nodes'
Validate_without_nodes_check(i) ==
    /\ Scheduled(i)
    /\ pc[i] = "validating"
    /\ IF ~is_dict(metrics_json[i])
       THEN raise(i, "TypeError")
       ELSE /\ pc' = [pc EXCEPT ![i] = "transforming"]
            /\ UNCHANGED exc
    /\ UNCHANGED <<pureVars, threads, CHUNK_SIZE, emitter_of, chunks_sent, metrics_json, metric_data,
                   metric_data_chunks, idx, tmp, fetches, puts, log>>

\* run(), lines 37-39
Validate(i) ==
    /\ Scheduled(i)
    /\ pc[i] = "validating"
    /\ IF ~is_dict(metrics_json[i])
       THEN /\ raise(i, "TypeError")
            /\ UNCHANGED log
       ELSE IF "nodes" \notin DOMAIN metrics_json[i]
       THEN /\ log' = [log EXCEPT ![i] = Append(@, <<"WARNING", "No 'nodes' in metrics json">>)]
            /\ pc' = [pc EXCEPT ![i] = "no_nodes"]
            /\ UNCHANGED exc
       ELSE /\ pc' = [pc EXCEPT ![i] = "transforming"]
            /\ UNCHANGED <<exc, log>>
    /\ UNCHANGED <<pureVars, threads, CHUNK_SIZE, emitter_of, chunks_sent, metrics_json, metric_data,
                   metric_data_chunks, idx, tmp, fetches, puts>>

\* run(), line 40
Transform(i) ==
    /\ Scheduled(i)
    /\ pc[i] = "transforming"
    /\ IF all_metric_data_for_response_raises(metrics_json[i])
       THEN /\ raise(i, "AttributeError")
            /\ UNCHANGED <<metric_data, log>>
       ELSE /\ metric_data' = [metric_data EXCEPT
                                  ![i] = all_metric_data_for_response(metrics_json[i])]
            /\ log' = [log EXCEPT ![i] = @ \o flatten_warnings(metrics_json[i])]
            /\ pc' = [pc EXCEPT ![i] = "batching"]
            /\ UNCHANGED exc
    /\ UNCHANGED <<pureVars, threads, CHUNK_SIZE, emitter_of, chunks_sent, metrics_json,
                   metric_data_chunks, idx, tmp, fetches, puts>>

\* _emit_metric_data, lines 53-55: boto3.client may fail, then split_list
Batch(i) ==
    /\ Scheduled(i)
    /\ pc[i] = "batching"
    /\ \/ /\ raise(i, "ClientError")
          /\ UNCHANGED <<metric_data_chunks, idx>>
       \/ IF split_list_raises(metric_data[i], CHUNK_SIZE)
          THEN /\ raise(i, "ValueError")
               /\ UNCHANGED <<metric_data_chunks, idx>>
          ELSE /\ metric_data_chunks' = [metric_data_chunks EXCEPT
                                            ![i] = split_list(metric_data[i], CHUNK_SIZE)]
               /\ idx' = [idx EXCEPT ![i] = 1]
               /\ pc' = [pc EXCEPT ![i] = "emitting"]
               /\ UNCHANGED exc
    /\ UNCHANGED <<pureVars, threads, CHUNK_SIZE, emitter_of, chunks_sent, metrics_json, metric_data,
                   tmp, fetches, puts, log>>

\* as Emit, but the whole list goes to put_metric_data instead of the chunk
Emit_whole_list(i) ==
    /\ Scheduled(i)
    /\ pc[i] = "emitting"
    /\ idx[i] <= Len(metric_data_chunks[i])
    /\ \E ok \in BOOLEAN :
          /\ puts' = [puts EXCEPT ![i] = Append(@, [MetricData |-> metric_data[i], ok |-> ok])]
          /\ IF ok
             THEN /\ pc' = [pc EXCEPT ![i] = "load"]
                  /\ UNCHANGED exc
             ELSE raise(i, "ClientError")
    /\ UNCHANGED <<pureVars, threads, CHUNK_SIZE, emitter_of, chunks_sent, metrics_json, metric_data,
                   metric_data_chunks, idx, tmp, fetches, log>>

\* _emit_metric_data, lines 56-58: the next chunk goes to put_metric_data,
\* which acknowledges it or raises
Emit(i) ==
    /\ Scheduled(i)
    /\ pc[i] = "emitting"
    /\ idx[i] <= Len(metric_data_chunks[i])
    /\ \E ok \in BOOLEAN :
          /\ puts' = [puts EXCEPT ![i] =
                         Append(@, [MetricData |-> metric_data_chunks[i][idx[i]], ok |-> ok])]
          /\ IF ok
             THEN /\ pc' = [pc EXCEPT ![i] = "load"]
                  /\ UNCHANGED exc
             ELSE raise(i, "ClientError")
    /\ UNCHANGED <<pureVars, threads, CHUNK_SIZE, emitter_of, chunks_sent, metrics_json, metric_data,
                   metric_data_chunks, idx, tmp, fetches, log>>

\* line 59, self.chunks_sent += 1: the attribute is loaded ...
Load(i) ==
    /\ Scheduled(i)
    /\ pc[i] = "load"
    /\ tmp' = [tmp EXCEPT ![i] = chunks_sent[self(i)]]
    /\ pc' = [pc EXCEPT ![i] = "store"]
    /\ UNCHANGED <<pureVars, threads, CHUNK_SIZE, emitter_of, chunks_sent, metrics_json, metric_data,
                   metric_data_chunks, idx, exc, fetches, puts, log>>

\* ... and stored, one larger; the loop goes on
Store(i) ==
    /\ Scheduled(i)
    /\ pc[i] = "store"
    /\ chunks_sent' = [chunks_sent EXCEPT ![self(i)] = tmp[i] + 1]
    /\ idx' = [idx EXCEPT ![i] = @ + 1]
    /\ pc' = [pc EXCEPT ![i] = "emitting"]
    /\ UNCHANGED <<pureVars, threads, CHUNK_SIZE, emitter_of, metrics_json, metric_data,
                   metric_data_chunks, tmp, exc, fetches, puts, log>>

\* as Finish, but the summary gives the loop position instead of the counter
Finish_reports_index(i) ==
    /\ Scheduled(i)
    /\ pc[i] = "emitting"
    /\ idx[i] > Len(metric_data_chunks[i])
    /\ log' = [log EXCEPT ![i] =
                  Append(@, <<"INFO", "Finished emitting {} metrics chunks", idx[i]>>)]
    /\ pc' = [pc EXCEPT ![i] = "done"]
    /\ UNCHANGED <<pureVars, threads, CHUNK_SIZE, emitter_of, chunks_sent, metrics_json, metric_data,
                   metric_data_chunks, idx, tmp, exc, fetches, puts>>

\* run(), line 42, after the loop of _emit_metric_data has ended
Finish(i) ==
    /\ Scheduled(i)
    /\ pc[i] = "emitting"
    /\ idx[i] > Len(metric_data_chunks[i])
    /\ log' = [log EXCEPT ![i] =
                  Append(@, <<"INFO", "Finished emitting {} metrics chunks",
                              chunks_sent[self(i)]>>)]
    /\ pc' = [pc EXCEPT ![i] = "done"]
    /\ UNCHANGED <<pureVars, threads, CHUNK_SIZE, emitter_of, chunks_sent, metrics_json, metric_data,
                   metric_data_chunks, idx, tmp, exc, fetches, puts>>

\* run(), lines 43-48: the first clause that matches logs its warning; an
\* exception no clause matches leaves run()
Except(i) ==
    /\ Scheduled(i)
    /\ pc[i] = "except"
    /\ LET c == catching_clause(exc[i])
       IN  IF c = 0
           THEN /\ pc' = [pc EXCEPT ![i] = "raised"]
                /\ UNCHANGED log
           ELSE /\ log' = [log EXCEPT ![i] = Append(@, <<"WARNING", except_clauses[c][2]>>)]
                /\ pc' = [pc EXCEPT ![i] = "aborted"]
    /\ UNCHANGED <<pureVars, threads, CHUNK_SIZE, emitter_of, chunks_sent, metrics_json, metric_data,
                   metric_data_chunks, idx, tmp, exc, fetches, puts>>

Terminal == {"done", "no_nodes", "aborted", "raised"}

\* run() returns (or the exception leaves it): its locals are gone, and the
\* histories of the invocation are dropped with them
Return(i) ==
    /\ Scheduled(i)
    /\ pc[i] \in Terminal
    /\ pc' = [pc EXCEPT ![i] = "returned"]
    /\ metrics_json' = [metrics_json EXCEPT ![i] = Unset]
    /\ metric_data' = [metric_data EXCEPT ![i] = <<>>]
    /\ metric_data_chunks' = [metric_data_chunks EXCEPT ![i] = <<>>]
    /\ idx' = [idx EXCEPT ![i] = 0]
    /\ tmp' = [tmp EXCEPT ![i] = 0]
    /\ exc' = [exc EXCEPT ![i] = "none"]
    /\ fetches' = [fetches EXCEPT ![i] = 0]
    /\ puts' = [puts EXCEPT ![i] = <<>>]
    /\ log' = [log EXCEPT ![i] = <<>>]
    /\ UNCHANGED <<pureVars, threads, CHUNK_SIZE, emitter_of, chunks_sent>>

Step(i) ==
    \/ Start(i)
    \/ Fetch(i)
    \/ Validate(i)
    \/ Transform(i)
    \/ Batch(i)
    \/ Emit(i)
    \/ Load(i)
    \/ Store(i)
    \/ Finish(i)
    \/ Except(i)
    \/ Return(i)

Next == \E i \in Invocations : Step(i)

\* the chunk sizes the program sets: __init__'s 20, and small ones as the test's 3
ChunkSizes == (1..MaxChunkSize) \cup {DEFAULT_CHUNK_SIZE}

\* CHUNK_SIZE as an attribute any caller may set
ConfiguredChunkSizes == ChunkSizes \cup {0, -1}

PureIdle ==
    /\ response_json = EmptyObj
    /\ flat = <<>>
    /\ flat_outcome = "pending"
    /\ lst = <<>>
    /\ chunk_size = DEFAULT_CHUNK_SIZE
    /\ list_of_chunks = <<>>
    /\ split_outcome = "pending"

\* the first invocation runs on emitter1 (the objects are interchangeable)
RunInit(sizes, overlapping) ==
    /\ threads = overlapping
    /\ CHUNK_SIZE \in sizes
    /\ emitter_of \in {f \in [Invocations -> Emitters] : f[1] = "emitter1"}
    /\ chunks_sent = [e \in Emitters |-> 0]
    /\ pc = [i \in Invocations |-> "idle"]
    /\ metrics_json = [i \in Invocations |-> Unset]
    /\ metric_data = [i \in Invocations |-> <<>>]
    /\ metric_data_chunks = [i \in Invocations |-> <<>>]
    /\ idx = [i \in Invocations |-> 0]
    /\ tmp = [i \in Invocations |-> 0]
    /\ exc = [i \in Invocations |-> "none"]
    /\ fetches = [i \in Invocations |-> 0]
    /\ puts = [i \in Invocations |-> <<>>]
    /\ log = [i \in Invocations |-> <<>>]

Init == PureIdle /\ RunInit(ChunkSizes, FALSE)

Spec == Init /\ [][Next]_vars

InitCfg == PureIdle /\ RunInit(ConfiguredChunkSizes, FALSE)

\* the interpreter goes on with a run() that has a next step
SpecCfg == InitCfg /\ [][Next]_vars /\ WF_vars(Next)

InitConc == PureIdle /\ RunInit(ChunkSizes, TRUE)

SpecConc == InitConc /\ [][Next]_vars

-----------------------------------------------------------------------------
(* SpecFlatten: all_metric_data_for_response called on every document *)

RunIdle == RunInit({DEFAULT_CHUNK_SIZE}, FALSE) /\ \A i \in Invocations : emitter_of[i] = "emitter1"

Flatten ==
    /\ flat_outcome = "pending"
    /\ IF all_metric_data_for_response_raises(response_json)
       THEN /\ flat_outcome' = "raised"
            /\ UNCHANGED flat
       ELSE /\ flat' = all_metric_data_for_response(response_json)
            /\ flat_outcome' = "returned"
    /\ UNCHANGED <<response_json, lst, chunk_size, list_of_chunks, split_outcome, runVars>>

InitFlatten ==
    /\ response_json \in Docs(MaxNodes, MaxHolders) \cup {DocNoNodes}
    /\ flat = <<>>
    /\ flat_outcome = "pending"
    /\ lst = <<>>
    /\ chunk_size = DEFAULT_CHUNK_SIZE
    /\ list_of_chunks = <<>>
    /\ split_outcome = "pending"
    /\ RunIdle

SpecFlatten == InitFlatten /\ [][Flatten]_vars

-----------------------------------------------------------------------------
(* SpecApi: runs, and all_metric_data_for_response called directly as the tests do *)

ApiDocs == {DocNoNodes, DocEmptyNodes, DocSmall}

InitApi ==
    /\ response_json \in ApiDocs
    /\ flat = <<>>
    /\ flat_outcome = "pending"
    /\ lst = <<>>
    /\ chunk_size = DEFAULT_CHUNK_SIZE
    /\ list_of_chunks = <<>>
    /\ split_outcome = "pending"
    /\ RunInit(ChunkSizes, FALSE)

NextApi == Flatten \/ Next

SpecApi == InitApi /\ [][NextApi]_vars

-----------------------------------------------------------------------------
(* SpecChunk: split_list called on every list with every chunk size >= 1 *)

Lists == UNION {[1..n -> 1..2] : n \in 0..MaxLen} \cup {[i \in 1..10 |-> i]}

Split ==
    /\ split_outcome = "pending"
    /\ IF split_list_raises(lst, chunk_size)
       THEN /\ split_outcome' = "raised"
            /\ UNCHANGED list_of_chunks
       ELSE /\ list_of_chunks' = split_list(lst, chunk_size)
            /\ split_outcome' = "returned"
    /\ UNCHANGED <<lst, chunk_size, response_json, flat, flat_outcome, runVars>>

InitChunk ==
    /\ lst \in Lists
    /\ chunk_size \in ChunkSizes
    /\ list_of_chunks = <<>>
    /\ split_outcome = "pending"
    /\ response_json = EmptyObj
    /\ flat = <<>>
    /\ flat_outcome = "pending"
    /\ RunIdle

SpecChunk == InitChunk /\ [][Split]_vars

-----------------------------------------------------------------------------
(* What the claims speak of *)

RECURSIVE Concatenation(_)
Concatenation(groups) ==
    IF Len(groups) = 0 THEN <<>>
    ELSE groups[1] \o Concatenation(SubSeq(groups, 2, Len(groups)))

\* the holders of a 'nodes' element: part 0 is its 'node', part 1 its 'services'
HoldersAt(nodes_elem, part) ==
    IF part = 0
    THEN IF "node" \in DOMAIN nodes_elem THEN <<nodes_elem.node>> ELSE <<>>
    ELSE IF "services" \in DOMAIN nodes_elem THEN nodes_elem.services ELSE <<>>

EntriesOf(holder) == IF "metrics" \in DOMAIN holder THEN holder.metrics ELSE <<>>

PairsOf(entry) == IF "values" \in DOMAIN entry THEN entry.values ELSE <<>>

EntryAt(json, c) == EntriesOf(HoldersAt(json.nodes[c[1]], c[2])[c[3]])[c[4]]

\* the places of the (name, value) pairs of a document:
\* <<node, part, holder, metrics entry, pair>>
Coords(json) ==
    UNION {UNION {UNION {UNION {
        {<<i, part, h, m, k>> :
            k \in 1..Len(PairsOf(EntriesOf(HoldersAt(json.nodes[i], part)[h])[m]))}
        : m \in 1..Len(EntriesOf(HoldersAt(json.nodes[i], part)[h]))}
        : h \in 1..Len(HoldersAt(json.nodes[i], part))}
        : part \in {0, 1}}
        : i \in 1..Len(json.nodes)}

\* place c comes before place d in the traversal
Before(c, d) ==
    \E n \in 1..5 : c[n] < d[n] /\ \A j \in 1..(n - 1) : c[j] = d[j]

Rank(json, c) == Cardinality({d \in Coords(json) : Before(d, c)}) + 1

\* the point of the pair at place c: its name and value, and the dimensions of its entry
PointAt(json, c) ==
    LET entry == EntryAt(json, c)
        dims == IF "dimensions" \in DOMAIN entry THEN entry.dimensions ELSE <<>>
    IN  [MetricName |-> entry.values[c[5]][1],
         Value      |-> entry.values[c[5]][2],
         Unit       |-> "None",
         Dimensions |-> [j \in 1..Len(dims) |-> [Name |-> dims[j][1], Value |-> dims[j][2]]]]

LastLine(i) == log[i][Len(log[i])]

Summary(n) == <<"INFO", "Finished emitting {} metrics chunks", n>>

Batches(i) == [k \in 1..Len(puts[i]) |-> puts[i][k].MetricData]

Acknowledged(i) == {k \in 1..Len(puts[i]) : puts[i][k].ok}

-----------------------------------------------------------------------------
(* C2 *)

\* C2: for every document with a 'nodes' list, all_metric_data_for_response
\* returns one point per (name, value) pair, the points in traversal order
\* (nodes, 'node' before 'services', services, metrics entries, pairs), each
\* with the name and value of its pair and the dimensions of its own entry.
C2_FlattenOrder ==
    ("nodes" \in DOMAIN response_json /\ flat_outcome # "pending") =>
        /\ flat_outcome = "returned"
        /\ Len(flat) = Cardinality(Coords(response_json))
        /\ \A c \in Coords(response_json) :
              flat[Rank(response_json, c)] = PointAt(response_json, c)

C2_Witness ==
    /\ flat_outcome = "returned"
    /\ response_json = [nodes |-> << [node |-> HolderB, services |-> <<HolderA>>],
                                     [services |-> <<HolderB>>] >>]
    /\ Len(flat) = 5
    /\ flat[1].MetricName = "net.in.bytes"
    /\ flat[2].MetricName = "cpu.util"
    /\ flat[3].MetricName = "cpu.idle"

-----------------------------------------------------------------------------
(* C4 *)

\* C4: on a document with a 'nodes' list whose optional parts may be missing,
\* all_metric_data_for_response does not raise, a missing part adds no point,
\* and the point of every pair of every part that is there is returned (with an
\* empty Dimensions list where the entry has no 'dimensions').
C4_MissingPartsTolerated ==
    ("nodes" \in DOMAIN response_json /\ flat_outcome # "pending") =>
        /\ flat_outcome = "returned"
        /\ Len(flat) = Cardinality(Coords(response_json))
        /\ \A c \in Coords(response_json) :
              /\ \E j \in 1..Len(flat) : flat[j] = PointAt(response_json, c)
              /\ "dimensions" \notin DOMAIN EntryAt(response_json, c)
                    => PointAt(response_json, c).Dimensions = <<>>

\* a 'nodes' element with 'node' and no 'services', an entry without 'values',
\* an entry without 'dimensions', and a later 'nodes' element without 'node'
C4_Witness ==
    /\ flat_outcome = "returned"
    /\ response_json = DocSmall
    /\ Len(flat) = 4
    /\ flat[3] = [MetricName |-> "mem.util", Value |-> "62", Unit |-> "None",
                  Dimensions |-> <<>>]
    /\ flat[4].MetricName = "net.in.bytes"

-----------------------------------------------------------------------------
(* C3 *)

\* C3: for every list and every chunk size n >= 1, split_list returns groups
\* whose concatenation is the list; every group but the last has n elements,
\* the last has 1..n, none is empty, the empty list gives no group, and there
\* are ceil(len / n) groups.
C3_ChunkPartition ==
    (chunk_size >= 1 /\ split_outcome # "pending") =>
        /\ split_outcome = "returned"
        /\ Concatenation(list_of_chunks) = lst
        /\ \A j \in 1..(Len(list_of_chunks) - 1) : Len(list_of_chunks[j]) = chunk_size
        /\ \A j \in 1..Len(list_of_chunks) : Len(list_of_chunks[j]) \in 1..chunk_size
        /\ lst = <<>> => list_of_chunks = <<>>
        /\ Len(list_of_chunks) = (Len(lst) + chunk_size - 1) \div chunk_size

C3_Witness ==
    /\ split_outcome = "returned"
    /\ lst = [i \in 1..10 |-> i]
    /\ chunk_size = 3
    /\ Len(list_of_chunks) = 4
    /\ list_of_chunks[1] = <<1, 2, 3>>
    /\ list_of_chunks[4] = <<10>>

-----------------------------------------------------------------------------
(* C1 *)

Started(i) == pc[i] \notin {"idle", "returned"}

C1_Contained ==
    \A i \in Invocations :
        /\ pc[i] # "raised"
        /\ exc[i] # "none" => pc[i] \in {"except", "aborted"}
        /\ pc[i] = "aborted" =>
              /\ exc[i] # "none"
              /\ Len(log[i]) > 0
              /\ LastLine(i)[1] = "WARNING"
              /\ LastLine(i)[2] =
                    (IF exc[i] = "TimeoutError"
                     THEN "Timed out connecting to Vespa's metrics api: {}"
                     ELSE IF exc[i] = "HTTPError"
                     THEN "Could not connect to Vespa's metrics api: {}"
                     ELSE "Unexpected error: {}")

\* C1: no exception leaves run(): whatever _get_metrics_json raises (a timeout,
\* a connection or HTTP error, anything else) and whatever a later stage raises
\* (the 'nodes' test, the flattener, split_list, boto3, put_metric_data), run()
\* logs the warning of the clause that catches it and ends as a normal return;
\* every run() that has started ends in one of its normal ends.
C1_NeverPropagates ==
    /\ []C1_Contained
    /\ \A i \in Invocations :
          (pc[i] = "fetching") ~> (pc[i] \in {"done", "no_nodes", "aborted"})

\* put_metric_data has failed after a chunk went through, and run() has ended
C1_Witness ==
    \E i \in Invocations :
        /\ pc[i] = "aborted"
        /\ exc[i] = "ClientError"
        /\ Len(puts[i]) = 2
        /\ puts[i][1].ok /\ ~puts[i][2].ok
        /\ LastLine(i) = <<"WARNING", "Unexpected error: {}">>

-----------------------------------------------------------------------------
(* C5 *)

\* C5: a run() fetches the document once, before any put_metric_data; the
\* calls of put_metric_data are made one after the other (none after one that
\* failed), the k-th call with the k-th chunk; when the run is done every chunk
\* has gone out once and the batches sent, put together, are the flattened list.
C5_OneFetchThenBatchesInOrder ==
    \A i \in Invocations :
        /\ fetches[i] <= 1
        /\ (Started(i) /\ pc[i] # "fetching") => fetches[i] = 1
        /\ Len(puts[i]) > 0 => fetches[i] = 1
        /\ Len(puts[i]) <= Len(metric_data_chunks[i])
        /\ \A k \in 1..Len(puts[i]) : puts[i][k].MetricData = metric_data_chunks[i][k]
        /\ \A k \in 1..(Len(puts[i]) - 1) : puts[i][k].ok
        /\ pc[i] = "done" =>
              /\ Len(puts[i]) = Len(metric_data_chunks[i])
              /\ Acknowledged(i) = 1..Len(puts[i])
              /\ Concatenation(Batches(i)) = metric_data[i]
              /\ metric_data[i] = all_metric_data_for_response(metrics_json[i])

C5_Witness ==
    \E i \in Invocations :
        /\ pc[i] = "done"
        /\ metrics_json[i] = Fixture
        /\ CHUNK_SIZE = 3
        /\ fetches[i] = 1
        /\ Len(puts[i]) = 3
        /\ Len(metric_data[i]) = 8

-----------------------------------------------------------------------------
(* C6 *)

\* C6: in the runs that follow one another, the counter is zero from the start
\* of a run until its first chunk has gone out, it is raised by one after each
\* call of put_metric_data that returns (between the return and the store it
\* is one behind), and the number in the summary is the number of calls made:
\* 3 for the 8 points of the fixture in chunks of at most 3 (3, 3 and 2 points).
C6_CounterCountsBatches ==
    \A i \in Invocations :
        LET sent == Cardinality(Acknowledged(i))
            counter == chunks_sent[self(i)]
        IN  /\ pc[i] \in {"fetching", "validating", "transforming", "batching", "no_nodes"}
                  => counter = 0 /\ sent = 0
            /\ pc[i] \in {"emitting", "except", "aborted", "done"} => counter = sent
            /\ pc[i] \in {"load", "store"} => counter = sent - 1
            /\ pc[i] = "store" => tmp[i] = sent - 1
            /\ pc[i] = "done" =>
                  /\ LastLine(i) = Summary(Len(puts[i]))
                  /\ (metrics_json[i] = Fixture /\ CHUNK_SIZE = TEST_CHUNK_SIZE) =>
                        /\ LastLine(i) = Summary(3)
                        /\ [k \in 1..3 |-> Len(puts[i][k].MetricData)] = <<3, 3, 2>>

\* the second of two runs on the same object, on the fixture in chunks of 3
C6_Witness ==
    /\ MaxInvocations >= 2
    /\ emitter_of[2] = emitter_of[1]
    /\ pc[1] = "returned"
    /\ pc[2] = "done"
    /\ metrics_json[2] = Fixture
    /\ CHUNK_SIZE = TEST_CHUNK_SIZE
    /\ LastLine(2) = Summary(3)
    /\ chunks_sent[self(2)] = 3

-----------------------------------------------------------------------------
(* C7 *)

\* C7 as claimed: every run() that ends without a failure, the run on a
\* document without 'nodes' included, has the summary line with the number of
\* batches sent as its last log line.
C7_SummaryOnEveryNormalEnd ==
    \A i \in Invocations :
        pc[i] \in {"done", "no_nodes"} =>
            /\ Len(log[i]) > 0
            /\ LastLine(i) = Summary(Len(puts[i]))

\* C7, amended: a run() that ends without a failure on a document with 'nodes'
\* has the summary line, with the number of batches sent, as its last log line
\* (0 when the document gives no point); on a document without 'nodes' it ends
\* with the warning "No 'nodes' in metrics json" as its only line, without the
\* summary, and no batch sent; only a failure ends a run otherwise.
C7_SummaryWhenNodesPresent ==
    \A i \in Invocations :
        /\ pc[i] = "done" =>
              /\ "nodes" \in DOMAIN metrics_json[i]
              /\ exc[i] = "none"
              /\ Len(log[i]) > 0
              /\ LastLine(i) = Summary(Len(puts[i]))
              /\ Len(puts[i]) = Len(metric_data_chunks[i])
              /\ metric_data[i] = <<>> => LastLine(i) = Summary(0)
        /\ pc[i] = "no_nodes" =>
              /\ "nodes" \notin DOMAIN metrics_json[i]
              /\ exc[i] = "none"
              /\ log[i] = << <<"WARNING", "No 'nodes' in metrics json">> >>
              /\ puts[i] = <<>>
        /\ pc[i] = "aborted" => exc[i] # "none"

C7_Witness ==
    \E i \in Invocations :
        /\ pc[i] = "done"
        /\ metrics_json[i] = DocZeroPoints
        /\ metric_data[i] = <<>>
        /\ puts[i] = <<>>
        /\ LastLine(i) = Summary(0)

-----------------------------------------------------------------------------
(* C8 *)

Fetched(i) == metrics_json[i] # Unset /\ is_dict(metrics_json[i])

\* no batch goes out in a run on a document whose 'nodes' is missing or empty
NoBatchWithoutNodes ==
    \A i \in Invocations :
        (/\ Fetched(i)
         /\ \/ "nodes" \notin DOMAIN metrics_json[i]
            \/ metrics_json[i].nodes = <<>>)
        => puts[i] = <<>>

-----------------------------------------------------------------------------
(* C9 *)

\* C9: however the invocations of run() interleave, on one object or on
\* several, the number a run reports in its summary is the number of batches
\* that run itself has sent.
C9_CounterPerInvocation ==
    \A i \in Invocations :
        pc[i] = "done" => LastLine(i) = Summary(Cardinality(Acknowledged(i)))

-----------------------------------------------------------------------------
(* C10 *)

\* C10: with a CHUNK_SIZE <= 0, split_list is not called (no run gets to the
\* loop over its chunks, none is stopped by the ValueError of range), and no
\* run ends as done with points flattened and none sent.
C10_NonPositiveChunkSizeRejected ==
    CHUNK_SIZE <= 0 =>
        \A i \in Invocations :
            /\ pc[i] \notin {"emitting", "load", "store", "done"}
            /\ exc[i] # "ValueError"
            /\ ~(pc[i] = "done" /\ metric_data[i] # <<>> /\ puts[i] = <<>>)

====
